---- MODULE Spec2Model ----
(***************************************************************************)
(* FaceFrame: the upload / generate / regenerate / export state machine of *)
(* src/App.tsx and the collage compositor of src/lib/albumUtils.ts.        *)
(*                                                                         *)
(* JavaScript values are represented as follows.                           *)
(*   - a string that the code takes apart (an album key, a caption) is a   *)
(*     sequence of one-character strings; other strings are TLA+ strings;  *)
(*   - an array is a sequence (JS index i is position i + 1); an empty     *)
(*     array position is HOLE, the value undefined is UNDEFINED;           *)
(*   - an object is the sequence of its <<key, value>> properties in       *)
(*     insertion order, which is the order Object.entries/values report.   *)
(***************************************************************************)
EXTENDS Integers, Sequences, FiniteSets, TLC

(***************************************************************************)
(* Bounds of the model.                                                    *)
(***************************************************************************)
\* asynchronous operations (file reads, generateStyledImage and createAlbumPage
\* calls) that may still be outstanding when the collection is discarded or replaced
MaxStale == 1
\* slots that may be in error at the same time
MaxFailed == 1
\* handleRegenerateStyle calls that may be outstanding at the same time
MaxRegenerating == 1

(***************************************************************************)
(* Program constants.                                                      *)
(***************************************************************************)
STYLES == <<"Instagram", "LinkedIn", "WhatsApp", "Facebook">>

StyleSet == {STYLES[n] : n \in 1..Len(STYLES)}

\* the variation indices processVariation is mapped over: [0, 1]
Indices == <<0, 1>>

IndexSet == {Indices[n] : n \in 1..Len(Indices)}

\* the photos a user may select
Photos == {"photo"}

NULL == "null"

\* the characters of each style name, for the strings built from it
StyleChars(style) ==
    CASE style = "Instagram" -> <<"I", "n", "s", "t", "a", "g", "r", "a", "m">>
      [] style = "LinkedIn"  -> <<"L", "i", "n", "k", "e", "d", "I", "n">>
      [] style = "WhatsApp"  -> <<"W", "h", "a", "t", "s", "A", "p", "p">>
      [] style = "Facebook"  -> <<"F", "a", "c", "e", "b", "o", "o", "k">>

\* String(n) for the small non-negative integers the program renders
DigitChar(d) ==
    CASE d = 0 -> "0" [] d = 1 -> "1" [] d = 2 -> "2" [] d = 3 -> "3"
      [] d = 4 -> "4" [] d = 5 -> "5" [] d = 6 -> "6" [] d = 7 -> "7"
      [] d = 8 -> "8" [] d = 9 -> "9"

RECURSIVE NumberToString(_)
NumberToString(n) ==
    IF n < 10 THEN <<DigitChar(n)>>
    ELSE NumberToString(n \div 10) \o <<DigitChar(n % 10)>>

(***************************************************************************)
(* GeneratedImage values (App.tsx:31-36) and array positions.              *)
(***************************************************************************)
Pending == [status |-> "pending"]

Done(resultUrl) == [status |-> "done", url |-> resultUrl]

\* an error stored under the wrong field
FailedAsUrl(errorMessage) == [status |-> "error", url |-> errorMessage]

Failed(errorMessage) == [status |-> "error", error |-> errorMessage]

HOLE == [hole |-> TRUE]

UNDEFINED == [undefined |-> TRUE]

\* x?.status
StatusOf(x) == IF "status" \in DOMAIN x THEN x.status ELSE "undefined"

(***************************************************************************)
(* JavaScript objects and arrays.                                          *)
(***************************************************************************)
EmptyObject == <<>>

ObjKeys(obj) == [n \in 1..Len(obj) |-> obj[n][1]]

ObjHas(obj, key) == \E n \in 1..Len(obj) : obj[n][1] = key

\* obj[key] of a key that is present
ObjGet(obj, key) == obj[CHOOSE n \in 1..Len(obj) : obj[n][1] = key][2]

\* obj[key] = value : a present key keeps its position, a new one is appended
ObjPut(obj, key, value) ==
    IF ObjHas(obj, key)
    THEN [n \in 1..Len(obj) |-> IF obj[n][1] = key THEN <<key, value>> ELSE obj[n]]
    ELSE Append(obj, <<key, value>>)

\* [...arr] : the spread reads every position, an empty one reads undefined
Spread(arr) == [n \in 1..Len(arr) |-> IF arr[n] = HOLE THEN UNDEFINED ELSE arr[n]]

\* arr[index] = value, index counted from 0: writing past the end leaves holes
ArraySet(arr, index, value) ==
    [n \in 1..(IF index + 1 > Len(arr) THEN index + 1 ELSE Len(arr)) |->
        IF n = index + 1 THEN value
        ELSE IF n <= Len(arr) THEN arr[n]
        ELSE HOLE]

\* arr[index], index counted from 0
ArrayGet(arr, index) ==
    IF index + 1 <= Len(arr) /\ arr[index + 1] # HOLE THEN arr[index + 1] ELSE UNDEFINED

\* Object.values(obj).flat() : flattening skips the empty positions
RECURSIVE FlatValues(_)
FlatValues(obj) ==
    IF obj = <<>> THEN <<>>
    ELSE SelectSeq(obj[1][2], LAMBDA x : x # HOLE) \o FlatValues(Tail(obj))

(***************************************************************************)
(* The external styling service (generateStyledImage) and getPrompt.       *)
(***************************************************************************)
\* the image the service returns for a photo and the prompt of (style, variation)
ResultUrl(photo, style, variation) ==
    [photo |-> photo, style |-> style, variation |-> variation]

\* how a call settles: it resolves with an image, or rejects with an Error
Outcomes == {"resolve", "reject"}

\* err instanceof Error ? err.message : "An unknown error occurred."
ErrorMessageOf(outcome) ==
    IF outcome = "reject" THEN "service error" ELSE "An unknown error occurred."

(***************************************************************************)
(* State of one createAlbumPage call (albumUtils.ts:21-108).               *)
(***************************************************************************)
VARIABLES
    albumSource,      \* the (style, variation, url) triples the caller builds keys from
    imageData,        \* the argument: object key -> url
    albumPc,          \* idle, loading (at await Promise.all), resolved, rejected
    loads,            \* per sorted entry, its loadImage promise: pending, loaded, failed
    canvasOps,        \* the drawing operations performed on the canvas, in order
    albumResult       \* what the call returned or threw

albumVars == <<albumSource, imageData, albumPc, loads, canvasOps, albumResult>>

(***************************************************************************)
(* State of App (App.tsx:43-47) and of its asynchronous environment.       *)
(***************************************************************************)
VARIABLES
    uploadedImage,    \* useState: the uploaded photo, or NULL
    generatedImages,  \* useState: object style -> array of GeneratedImage
    isGenerating,     \* useState
    isDownloading,    \* useState
    appState,         \* useState: idle, image-uploaded, generating, results-shown
    crashed,          \* an updater or the render threw: React unmounted the app
    readers,          \* FileReaders still reading
    tasks,            \* generateStyledImage calls not yet settled
    albumCall,        \* the createAlbumPage call awaited by handleDownloadAll
    effect            \* what the latest step showed the user (alert, download)

appVars == <<uploadedImage, generatedImages, isGenerating, isDownloading, appState,
             crashed, readers, tasks, albumCall, effect>>

\* one ProfileCard (PolaroidCard.tsx:41-134)
VARIABLES
    cardImages,       \* the images prop of the card
    currentIndex,     \* useState(0): the variation the card shows
    cardTrail         \* the last two button presses, each with the index it started from

cardVars == <<cardImages, currentIndex, cardTrail>>

NoCall == [active |-> FALSE]

\* initialImages of handleGenerateClick
RECURSIVE InitialImagesFrom(_)
InitialImagesFrom(n) ==
    IF n > Len(STYLES) THEN EmptyObject
    ELSE <<  <<STYLES[n], <<Pending, Pending>> >>  >> \o InitialImagesFrom(n + 1)

InitialImages == InitialImagesFrom(1)

\* `${style}_${variation}` on the characters of the two parts
ComposeKey(styleChars, variationChars) == styleChars \o <<"_">> \o variationChars

\* a key that numbers the variations from 0
KeyOfIndex(style, index) == ComposeKey(StyleChars(style), NumberToString(index))

\* `${style}_${index + 1}`
KeyOf(style, index) == ComposeKey(StyleChars(style), NumberToString(index + 1))

(***************************************************************************)
(* Rendering (App.tsx:187-275).                                            *)
(***************************************************************************)
\* the results panel is rendered
ResultsPanel(app) == app \in {"generating", "results-shown"}

\* arr.some(img => img.status !== 'done') : "true", "false" or "throws"
RECURSIVE SomeNotDone(_)
SomeNotDone(arr) ==
    IF arr = <<>> THEN "false"
    ELSE IF arr[1] = UNDEFINED THEN "throws"
    ELSE IF arr[1].status # "done" THEN "true"
    ELSE SomeNotDone(Tail(arr))

\* the disabled attribute of the Download All button
\* "true", "false", or "throws" when its evaluation reads .status of undefined
DownloadAllDisabled(gi, isGen, isDl) ==
    IF isGen \/ isDl THEN "true" ELSE SomeNotDone(FlatValues(gi))

\* the render of App throws
RenderThrows(gi, app, isGen, isDl) ==
    ResultsPanel(app) /\ DownloadAllDisabled(gi, isGen, isDl) = "throws"

\* the images prop of a style's ProfileCard
CardImages(gi, style) ==
    IF ObjHas(gi, style) THEN ObjGet(gi, style) ELSE <<Pending, Pending>>

\* the asynchronous operations that are outstanding
Outstanding == readers + Cardinality(tasks) + (IF albumCall.active THEN 1 ELSE 0)

\* the outstanding calls, marked as issued for a collection that is gone
Stale(ts) == {[t EXCEPT !.stale = TRUE] : t \in ts}

\* the slots of the collection that are in error
FailedSlots(gi) ==
    {<<style, index>> \in StyleSet \X IndexSet :
        ObjHas(gi, style) /\ StatusOf(ArrayGet(ObjGet(gi, style), index)) = "error"}

\* the outcomes the model lets a call have in a state
OutcomesIn(gi) ==
    IF Cardinality(FailedSlots(gi)) < MaxFailed THEN Outcomes ELSE {"resolve"}

(***************************************************************************)
(* handleImageUpload (App.tsx:49-60).                                      *)
(***************************************************************************)
\* the file input is rendered in the idle panel only; the read is asynchronous
HandleImageUpload ==
    /\ ~crashed
    /\ appState = "idle"
    /\ readers <= MaxStale
    /\ readers' = readers + 1
    /\ effect' = "none"
    /\ UNCHANGED <<uploadedImage, generatedImages, isGenerating, isDownloading,
                   appState, crashed, tasks, albumCall>>
    /\ UNCHANGED albumVars
    /\ UNCHANGED cardVars

\* reader.onloadend: reader.result is the data URL, or null when the read failed
ReaderLoadEnd(result) ==
    /\ ~crashed
    /\ readers > 0
    /\ Outstanding - 1 <= MaxStale
    /\ readers' = readers - 1
    /\ tasks' = Stale(tasks)
    /\ uploadedImage' = result
    /\ appState' = "image-uploaded"
    /\ generatedImages' = EmptyObject
    /\ effect' = "none"
    /\ crashed' = RenderThrows(generatedImages', appState', isGenerating, isDownloading)
    /\ UNCHANGED <<isGenerating, isDownloading, albumCall>>
    /\ UNCHANGED albumVars
    /\ UNCHANGED cardVars

(***************************************************************************)
(* handleGenerateClick and processVariation (App.tsx:62-102).              *)
(***************************************************************************)
GenerationIds == {t.gen : t \in {u \in tasks : u.kind = "generate"}}

\* identifies the Promise.all of one handleGenerateClick call
NewGenerationId == CHOOSE g \in 1..(Cardinality(GenerationIds) + 1) :
                       g \notin GenerationIds /\ \A h \in 1..(g - 1) : h \in GenerationIds

\* the Generate button is rendered in the image-uploaded panel, which needs a photo
HandleGenerateClick ==
    /\ ~crashed
    /\ appState = "image-uploaded"
    /\ uploadedImage # NULL
    /\ Outstanding <= MaxStale
    /\ isGenerating' = TRUE
    /\ appState' = "generating"
    /\ generatedImages' = InitialImages
    /\ tasks' = Stale(tasks) \cup
          {[kind |-> "generate", gen |-> NewGenerationId, style |-> style,
            index |-> index, photo |-> uploadedImage, copy |-> 1, stale |-> FALSE] :
              style \in StyleSet, index \in IndexSet}
    /\ effect' = "none"
    /\ crashed' = RenderThrows(generatedImages', appState', isGenerating', isDownloading)
    /\ UNCHANGED <<uploadedImage, isDownloading, readers, albumCall>>
    /\ UNCHANGED albumVars
    /\ UNCHANGED cardVars

\* the GeneratedImage a settled call stores
SettledImage(t, outcome) ==
    IF outcome = "resolve"
    THEN Done(ResultUrl(t.photo, t.style, t.index + 1))
    ELSE Failed(ErrorMessageOf(outcome))

\* an updater that starts the style's array afresh
ProcessVariationUpdateFresh(prev, style, index, image) ==
    ObjPut(prev, style, ArraySet(<<>>, index, image))

\* the updater of processVariation: prev => {...prev, [style]: newImages}
ProcessVariationUpdate(prev, style, index, image) ==
    LET newImages == Spread(IF ObjHas(prev, style) THEN ObjGet(prev, style) ELSE <<>>)
    IN  ObjPut(prev, style, ArraySet(newImages, index, image))

\* a call of processVariation settles; after the last one of its generation the
\* continuation of await Promise.all runs in the same turn of the event loop
SettleGeneration(t, outcome) ==
    /\ ~crashed
    /\ t \in tasks
    /\ t.kind = "generate"
    /\ tasks' = tasks \ {t}
    /\ generatedImages' =
          ProcessVariationUpdate(generatedImages, t.style, t.index, SettledImage(t, outcome))
    /\ IF \E u \in tasks' : u.kind = "generate" /\ u.gen = t.gen
       THEN UNCHANGED <<isGenerating, appState>>
       ELSE isGenerating' = FALSE /\ appState' = "results-shown"
    /\ effect' = "none"
    /\ crashed' = RenderThrows(generatedImages', appState', isGenerating', isDownloading)
    /\ UNCHANGED <<uploadedImage, isDownloading, readers, albumCall>>
    /\ UNCHANGED albumVars
    /\ UNCHANGED cardVars

(***************************************************************************)
(* handleRegenerateStyle (App.tsx:104-130).                                *)
(***************************************************************************)
\* the updaters of handleRegenerateStyle: [...prev[style]] throws without prev[style]
RegenerateUpdate(prev, style, index, image) ==
    ObjPut(prev, style, ArraySet(Spread(ObjGet(prev, style)), index, image))

\* the call a handleRegenerateStyle invocation awaits; copy tells it from an equal
\* call that is still outstanding
RegenerateCall(style, index, photo, copy) ==
    [kind |-> "regenerate", gen |-> 0, style |-> style, index |-> index,
     photo |-> photo, copy |-> copy, stale |-> FALSE]

RegenerateTask(style, index, photo) ==
    LET used(c) == RegenerateCall(style, index, photo, c) \in tasks \cup Stale(tasks)
    IN  RegenerateCall(style, index, photo,
            CHOOSE c \in 1..(Cardinality(tasks) + 1) :
                ~used(c) /\ \A d \in 1..(c - 1) : used(d))

\* onRegenerate(styleName, currentIndex) of a card, offered once results are shown
HandleRegenerateStyle(style, index) ==
    /\ ~crashed
    /\ appState = "results-shown"
    /\ index + 1 <= Len(CardImages(generatedImages, style))
    /\ uploadedImage # NULL
    /\ ~(ObjHas(generatedImages, style)
           /\ StatusOf(ArrayGet(ObjGet(generatedImages, style), index)) = "pending")
    /\ LET t == RegenerateTask(style, index, uploadedImage)
       IN  /\ Cardinality({u \in tasks : u.kind = "regenerate"}) < MaxRegenerating
           /\ IF ObjHas(generatedImages, style)
              THEN /\ generatedImages' = RegenerateUpdate(generatedImages, style, index, Pending)
                   /\ tasks' = tasks \cup {t}
                   /\ crashed' = RenderThrows(generatedImages', appState, isGenerating,
                                              isDownloading)
              ELSE /\ crashed' = TRUE
                   /\ UNCHANGED <<generatedImages, tasks>>
    /\ effect' = "none"
    /\ UNCHANGED <<uploadedImage, isGenerating, isDownloading, appState, readers, albumCall>>
    /\ UNCHANGED albumVars
    /\ UNCHANGED cardVars

\* the call of handleRegenerateStyle settles
SettleRegeneration(t, outcome) ==
    /\ ~crashed
    /\ t \in tasks
    /\ t.kind = "regenerate"
    /\ tasks' = tasks \ {t}
    /\ IF ObjHas(generatedImages, t.style)
       THEN /\ generatedImages' =
                  RegenerateUpdate(generatedImages, t.style, t.index, SettledImage(t, outcome))
            /\ crashed' = RenderThrows(generatedImages', appState, isGenerating, isDownloading)
       ELSE /\ crashed' = TRUE
            /\ UNCHANGED generatedImages
    /\ effect' = "none"
    /\ UNCHANGED <<uploadedImage, isGenerating, isDownloading, appState, readers, albumCall>>
    /\ UNCHANGED albumVars
    /\ UNCHANGED cardVars

(***************************************************************************)
(* handleReset (App.tsx:132-136).                                          *)
(***************************************************************************)
\* Change Photo in the image-uploaded panel; Start Over in the results panel,
\* disabled while isGenerating
HandleReset ==
    /\ ~crashed
    /\ \/ appState = "image-uploaded" /\ uploadedImage # NULL
       \/ ResultsPanel(appState) /\ ~isGenerating
    /\ Outstanding <= MaxStale
    /\ tasks' = Stale(tasks)
    /\ uploadedImage' = NULL
    /\ generatedImages' = EmptyObject
    /\ appState' = "idle"
    /\ effect' = "none"
    /\ UNCHANGED <<isGenerating, isDownloading, crashed, readers, albumCall>>
    /\ UNCHANGED albumVars
    /\ UNCHANGED cardVars

(***************************************************************************)
(* handleDownloadAll (App.tsx:150-185).                                    *)
(***************************************************************************)
\* images.map((image, index) => ({key, image})) : map keeps the empty positions
MapImages(style, images) ==
    [n \in 1..Len(images) |->
        IF images[n] = HOLE THEN HOLE
        ELSE [key |-> KeyOf(style, n - 1), image |-> images[n]]]

\* Object.entries(generatedImages).flatMap(...) : flattening skips the empty positions
RECURSIVE FlatMapEntries(_)
FlatMapEntries(obj) ==
    IF obj = <<>> THEN <<>>
    ELSE SelectSeq(MapImages(obj[1][1], obj[1][2]), LAMBDA x : x # HOLE)
            \o FlatMapEntries(Tail(obj))

\* the filter callback reads image.status: it throws on an undefined image
FilterThrows(entries) == \E n \in 1..Len(entries) : entries[n].image = UNDEFINED

\* .filter(({ image }) => image.status === 'done' && image.url)
FilterDone(entries) ==
    SelectSeq(entries, LAMBDA e : e.image.status = "done" /\ "url" \in DOMAIN e.image)

\* .reduce((acc, { key, image }) => { acc[key] = image.url; return acc }, {})
RECURSIVE ReduceEntries(_, _)
ReduceEntries(acc, entries) ==
    IF entries = <<>> THEN acc
    ELSE ReduceEntries(ObjPut(acc, entries[1].key, entries[1].image.url), Tail(entries))

\* imageData of handleDownloadAll
ImageDataOf(gi) == ReduceEntries(EmptyObject, FilterDone(FlatMapEntries(gi)))

\* a readiness check that only asks for one finished image
RequiredImagesAnyOne == Len(STYLES) \div Len(STYLES)

\* STYLES.length * 2
RequiredImages == Len(STYLES) * 2

\* the Download All button is in the results panel; the handler runs up to its
\* first await: it refuses, fails in the filter, or calls createAlbumPage
HandleDownloadAll ==
    /\ ~crashed
    /\ ResultsPanel(appState)
    /\ DownloadAllDisabled(generatedImages, isGenerating, isDownloading) = "false"
    /\ IF FilterThrows(FlatMapEntries(generatedImages))
       THEN /\ effect' = "alert: error creating collection"
            /\ UNCHANGED <<isDownloading, albumCall>>
       ELSE IF Len(ImageDataOf(generatedImages)) < RequiredImages
       THEN /\ effect' = "alert: please wait"
            /\ UNCHANGED <<isDownloading, albumCall>>
       ELSE /\ effect' = "createAlbumPage"
            /\ isDownloading' = TRUE
            /\ albumCall' = [active |-> TRUE, imageData |-> ImageDataOf(generatedImages)]
    /\ UNCHANGED <<uploadedImage, generatedImages, isGenerating, appState, crashed,
                   readers, tasks>>
    /\ UNCHANGED albumVars
    /\ UNCHANGED cardVars

\* a handler without the finally block: a failed export leaves the button busy
SettleAlbumKeepsBusy(ok) ==
    /\ ~crashed
    /\ albumCall.active
    /\ albumCall' = NoCall
    /\ effect' = IF ok THEN "download: faceframe-collection.jpg"
                 ELSE "alert: error creating collection"
    /\ isDownloading' = ~ok
    /\ crashed' = RenderThrows(generatedImages, appState, isGenerating, isDownloading')
    /\ UNCHANGED <<uploadedImage, generatedImages, isGenerating, appState, readers, tasks>>
    /\ UNCHANGED albumVars
    /\ UNCHANGED cardVars

\* createAlbumPage settles: the link is clicked, or the catch block alerts;
\* finally isDownloading is cleared
SettleAlbum(ok) ==
    /\ ~crashed
    /\ albumCall.active
    /\ albumCall' = NoCall
    /\ effect' = IF ok THEN "download: faceframe-collection.jpg"
                 ELSE "alert: error creating collection"
    /\ isDownloading' = FALSE
    /\ crashed' = RenderThrows(generatedImages, appState, isGenerating, isDownloading')
    /\ UNCHANGED <<uploadedImage, generatedImages, isGenerating, appState, readers, tasks>>
    /\ UNCHANGED albumVars
    /\ UNCHANGED cardVars

(***************************************************************************)
(* Strings of albumUtils.ts: character codes, localeCompare, split.        *)
(***************************************************************************)
DigitChars == <<"0", "1", "2", "3", "4", "5", "6", "7", "8", "9">>

UpperChars == <<"A", "B", "C", "D", "E", "F", "G", "H", "I", "J", "K", "L", "M",
                "N", "O", "P", "Q", "R", "S", "T", "U", "V", "W", "X", "Y", "Z">>

LowerChars == <<"a", "b", "c", "d", "e", "f", "g", "h", "i", "j", "k", "l", "m",
                "n", "o", "p", "q", "r", "s", "t", "u", "v", "w", "x", "y", "z">>

Range(seq) == {seq[n] : n \in 1..Len(seq)}

IndexOf(seq, c) == CHOOSE n \in 1..Len(seq) : seq[n] = c

\* the primary collation weight of a character of a key: punctuation sorts before
\* the digits, the digits before the letters, and a letter's case is ignored
PrimaryWeight(c) ==
    CASE c = "_" -> 1
      [] c \in Range(DigitChars) -> 1 + IndexOf(DigitChars, c)
      [] c \in Range(UpperChars) -> 11 + IndexOf(UpperChars, c)
      [] c \in Range(LowerChars) -> 11 + IndexOf(LowerChars, c)

\* the tertiary collation weight: a lower-case letter sorts before its upper case
TertiaryWeight(c) == IF c \in Range(UpperChars) THEN 1 ELSE 0

\* the order of two sequences of weights: -1, 0 or 1
RECURSIVE CompareWeights(_, _)
CompareWeights(x, y) ==
    IF x = <<>> /\ y = <<>> THEN 0
    ELSE IF x = <<>> THEN -1
    ELSE IF y = <<>> THEN 1
    ELSE IF x[1] < y[1] THEN -1
    ELSE IF x[1] > y[1] THEN 1
    ELSE CompareWeights(Tail(x), Tail(y))

\* the comparison with its operands exchanged
LocaleCompareSwapped(keyA, keyB) ==
    LET primary == CompareWeights([n \in 1..Len(keyB) |-> PrimaryWeight(keyB[n])],
                                  [n \in 1..Len(keyA) |-> PrimaryWeight(keyA[n])])
    IN  IF primary # 0 THEN primary
        ELSE CompareWeights([n \in 1..Len(keyB) |-> TertiaryWeight(keyB[n])],
                            [n \in 1..Len(keyA) |-> TertiaryWeight(keyA[n])])

\* keyA.localeCompare(keyB) in the default collation: the primary weights of the
\* whole strings decide, and the case decides only between strings equal in them
LocaleCompare(keyA, keyB) ==
    LET primary == CompareWeights([n \in 1..Len(keyA) |-> PrimaryWeight(keyA[n])],
                                  [n \in 1..Len(keyB) |-> PrimaryWeight(keyB[n])])
    IN  IF primary # 0 THEN primary
        ELSE CompareWeights([n \in 1..Len(keyA) |-> TertiaryWeight(keyA[n])],
                            [n \in 1..Len(keyB) |-> TertiaryWeight(keyB[n])])

\* key.split('_') : the segments between the separators
RECURSIVE Split(_, _)
Split(chars, separator) ==
    IF \E n \in 1..Len(chars) : chars[n] = separator
    THEN LET n == CHOOSE m \in 1..Len(chars) :
                    chars[m] = separator /\ \A k \in 1..(m - 1) : chars[k] # separator
         IN  <<SubSeq(chars, 1, n - 1)>> \o Split(SubSeq(chars, n + 1, Len(chars)), separator)
    ELSE <<chars>>

\* `${value}` of a segment that split may not have produced
Segment(segments, n) ==
    IF n <= Len(segments) THEN segments[n]
    ELSE <<"u", "n", "d", "e", "f", "i", "n", "e", "d">>

\* entries.sort(([keyA], [keyB]) => keyA.localeCompare(keyB)) : the sort is stable
RECURSIVE InsertEntry(_, _)
InsertEntry(sorted, entry) ==
    IF sorted = <<>> THEN <<entry>>
    ELSE IF LocaleCompare(sorted[1][1], entry[1]) > 0 THEN <<entry>> \o sorted
    ELSE <<sorted[1]>> \o InsertEntry(Tail(sorted), entry)

RECURSIVE SortEntriesFrom(_, _)
SortEntriesFrom(sorted, entries) ==
    IF entries = <<>> THEN sorted
    ELSE SortEntriesFrom(InsertEntry(sorted, entries[1]), Tail(entries))

\* sortedImageEntries
SortedImageEntries(data) == SortEntriesFrom(<<>>, data)

\* imagesWithStyles, without the promises
ImagesWithStyles(data) ==
    LET sorted == SortedImageEntries(data)
    IN  [n \in 1..Len(sorted) |->
            [style |-> Segment(Split(sorted[n][1], "_"), 1),
             variation |-> Segment(Split(sorted[n][1], "_"), 2),
             src |-> sorted[n][2]]]

(***************************************************************************)
(* createAlbumPage (albumUtils.ts:21-108): constants and layout.           *)
(***************************************************************************)
canvasWidth == 3200

canvasHeight == 1800

padding == 100

gridCols == 4

gridRows == 2

imagePadding == 30

\* the room left under the image for its caption
captionBand == 60

\* the distance of the caption below the image
captionGap == 20

captionFontSize == 42

footerFontSize == 28

\* the distance of the footer text from the bottom edge
footerOffset == 30

\* the divisions of the layout are exact for these constants
totalContentWidth == canvasWidth - padding * 2

totalContentHeight == canvasHeight - padding * 2

cellWidth == totalContentWidth \div gridCols

cellHeight == totalContentHeight \div gridRows

imageWidth == cellWidth - imagePadding * 2

imageHeight == imageWidth

\* a row computed from the number of rows
CellRowByRows(index) == index \div gridRows

\* index counted from 0
CellRow(index) == index \div gridCols

CellCol(index) == index % gridCols

CellX(index) == padding + CellCol(index) * cellWidth

CellY(index) == padding + CellRow(index) * cellHeight

ImgX(index) == CellX(index) + (cellWidth - imageWidth) \div 2

\* an image centred in its cell without room for the caption
ImgYCentred(index) == CellY(index) + (cellHeight - imageHeight) \div 2

ImgY(index) == CellY(index) + (cellHeight - imageHeight - captionBand) \div 2

CaptionY(index) == ImgY(index) + imageHeight + captionGap

\* a caption without the version mark
CaptionTextPlain(style, variation) == style \o <<" ">> \o variation

\* `${style} (v${variation})`
CaptionText(style, variation) == style \o <<" ", "(", "v">> \o variation \o <<")">>

FooterText == "Generated with FaceFrame on Google AI Studio"

\* a canvas that is not painted before the loads
BackgroundOpsNone == <<>>

\* ctx.fillRect(0, 0, canvasWidth, canvasHeight) in the background colour
BackgroundOps ==
    << [op |-> "fillRect", x |-> 0, y |-> 0, w |-> canvasWidth, h |-> canvasHeight,
        fillStyle |-> "#f4f4f5"] >>

\* the body of loadedImages.forEach for one image: the image under a shadow, then
\* its caption without one
CellOps(img, index, style, variation) ==
    << [op |-> "drawImage", img |-> img, x |-> ImgX(index), y |-> ImgY(index),
        w |-> imageWidth, h |-> imageHeight, shadow |-> TRUE],
       [op |-> "fillText", text |-> CaptionText(style, variation),
        x |-> CellX(index) + cellWidth \div 2, y |-> CaptionY(index),
        size |-> captionFontSize, shadow |-> FALSE] >>

\* loadedImages.forEach(...) from position n on
RECURSIVE ForEachCell(_, _, _)
ForEachCell(loadedImages, styled, n) ==
    IF n > Len(loadedImages) THEN <<>>
    ELSE CellOps(loadedImages[n], n - 1, styled[n].style, styled[n].variation)
            \o ForEachCell(loadedImages, styled, n + 1)

FooterOps ==
    << [op |-> "fillText", text |-> FooterText, x |-> canvasWidth \div 2,
        y |-> canvasHeight - footerOffset, size |-> footerFontSize, shadow |-> FALSE] >>

\* a drawing that starts with the footer
DrawAlbumFooterFirst(loadedImages, styled) ==
    FooterOps \o ForEachCell(loadedImages, styled, 1)

\* the drawing that follows await Promise.all
DrawAlbum(loadedImages, styled) == ForEachCell(loadedImages, styled, 1) \o FooterOps

\* the whole source
SubstringAll(src) == src

\* src.substring(0, 50)
Substring50(src) == SubSeq(src, 1, IF Len(src) < 50 THEN Len(src) ELSE 50)

\* an error of the compositor's own in place of the loader's
LoadErrorWrapped(src) ==
    [kind |-> "error", name |-> "Could not create album", detail |-> <<>>]

\* new Error(`Failed to load image: ${src.substring(0, 50)}...`)
LoadError(src) ==
    [kind |-> "error", name |-> "Failed to load image",
     detail |-> Substring50(src) \o <<".", ".", ".">>]

ContextError ==
    [kind |-> "error", name |-> "Could not get 2D canvas context", detail |-> <<>>]

\* an encoding in the default type of toDataURL
ToDataURLPng(ops) ==
    [kind |-> "dataURL", type |-> "image/png", quality |-> 95,
     width |-> canvasWidth, height |-> canvasHeight, canvas |-> ops]

\* canvas.toDataURL('image/jpeg', 0.95) : quality in hundredths
ToDataURL(ops) ==
    [kind |-> "dataURL", type |-> "image/jpeg", quality |-> 95,
     width |-> canvasWidth, height |-> canvasHeight, canvas |-> ops]

NoResult == [kind |-> "none"]

(***************************************************************************)
(* createAlbumPage (albumUtils.ts:21-108): the call.                       *)
(***************************************************************************)
\* the HTMLImageElement loadImage resolves with
LoadedImage(src) == [element |-> "img", src |-> src]

\* canvas, getContext, background, sort, one loadImage per entry, up to the await;
\* Promise.all of no promise resolves at once and the drawing follows
CreateAlbumPage(contextAvailable) ==
    /\ albumPc = "idle"
    /\ IF ~contextAvailable
       THEN /\ albumPc' = "rejected"
            /\ albumResult' = ContextError
            /\ UNCHANGED <<loads, canvasOps>>
       ELSE /\ loads' = [n \in 1..Len(SortedImageEntries(imageData)) |-> "pending"]
            /\ IF imageData = EmptyObject
               THEN /\ canvasOps' = BackgroundOps \o DrawAlbum(<<>>, <<>>)
                    /\ albumPc' = "resolved"
                    /\ albumResult' = ToDataURL(canvasOps')
               ELSE /\ canvasOps' = BackgroundOps
                    /\ albumPc' = "loading"
                    /\ UNCHANGED albumResult
    /\ UNCHANGED <<albumSource, imageData>>
    /\ UNCHANGED appVars
    /\ UNCHANGED cardVars

\* a call that waits for every promise to settle and draws the images that loaded
AfterLoadAllSettled(n, ok, next) ==
    IF albumPc = "loading" /\ \A m \in 1..Len(next) : next[m] # "pending"
    THEN LET kept == SelectSeq([m \in 1..Len(next) |-> m], LAMBDA m : next[m] = "loaded")
         IN  /\ canvasOps' = canvasOps \o
                   DrawAlbum([m \in 1..Len(kept) |->
                                 LoadedImage(ImagesWithStyles(imageData)[kept[m]].src)],
                             [m \in 1..Len(kept) |-> ImagesWithStyles(imageData)[kept[m]]])
             /\ albumPc' = "resolved"
             /\ albumResult' = ToDataURL(canvasOps')
    ELSE UNCHANGED <<albumPc, canvasOps, albumResult>>

\* a call that reports the latest rejection it has seen
AfterLoadLastFailure(n, ok, next) ==
    IF albumPc \in {"loading", "rejected"} /\ ~ok
    THEN /\ albumPc' = "rejected"
         /\ albumResult' = LoadError(ImagesWithStyles(imageData)[n].src)
         /\ UNCHANGED canvasOps
    ELSE IF albumPc = "loading" /\ \A m \in 1..Len(next) : next[m] = "loaded"
    THEN /\ canvasOps' = canvasOps \o
              DrawAlbum([m \in 1..Len(next) |->
                            LoadedImage(ImagesWithStyles(imageData)[m].src)],
                        ImagesWithStyles(imageData))
         /\ albumPc' = "resolved"
         /\ albumResult' = ToDataURL(canvasOps')
    ELSE UNCHANGED <<albumPc, canvasOps, albumResult>>

\* a call that draws every image at the moment it has loaded
AfterLoadAsLoaded(n, ok, next) ==
    IF albumPc # "loading"
    THEN UNCHANGED <<albumPc, canvasOps, albumResult>>
    ELSE IF ~ok
    THEN /\ albumPc' = "rejected"
         /\ albumResult' = LoadError(ImagesWithStyles(imageData)[n].src)
         /\ UNCHANGED canvasOps
    ELSE LET styled == ImagesWithStyles(imageData)[n]
             cell == CellOps(LoadedImage(styled.src), n - 1, styled.style, styled.variation)
         IN  IF \A m \in 1..Len(next) : next[m] = "loaded"
             THEN /\ canvasOps' = canvasOps \o cell \o FooterOps
                  /\ albumPc' = "resolved"
                  /\ albumResult' = ToDataURL(canvasOps')
             ELSE /\ canvasOps' = canvasOps \o cell
                  /\ UNCHANGED <<albumPc, albumResult>>

\* what the call does when the n-th promise settles and leaves the promises as next:
\* Promise.all rejects with the first rejection, resolves when all have resolved
AfterLoad(n, ok, next) ==
    IF albumPc # "loading"
    THEN UNCHANGED <<albumPc, canvasOps, albumResult>>
    ELSE IF ~ok
    THEN /\ albumPc' = "rejected"
         /\ albumResult' = LoadError(ImagesWithStyles(imageData)[n].src)
         /\ UNCHANGED canvasOps
    ELSE IF \A m \in 1..Len(next) : next[m] = "loaded"
    THEN /\ canvasOps' = canvasOps \o
              DrawAlbum([m \in 1..Len(next) |->
                            LoadedImage(ImagesWithStyles(imageData)[m].src)],
                        ImagesWithStyles(imageData))
         /\ albumPc' = "resolved"
         /\ albumResult' = ToDataURL(canvasOps')
    ELSE UNCHANGED <<albumPc, canvasOps, albumResult>>

\* img.onload or img.onerror of the n-th image, loadImage (albumUtils.ts:6-14)
ImageSettles(n, ok) ==
    /\ n \in 1..Len(loads)
    /\ loads[n] = "pending"
    /\ loads' = [loads EXCEPT ![n] = IF ok THEN "loaded" ELSE "failed"]
    /\ AfterLoad(n, ok, loads')
    /\ UNCHANGED <<albumSource, imageData>>
    /\ UNCHANGED appVars
    /\ UNCHANGED cardVars

(***************************************************************************)
(* The inputs of createAlbumPage that are explored.                        *)
(***************************************************************************)
\* entries of an input besides those of the application's styles
MaxTestEntries == 2

TestStyles == { <<"A">>, <<"a">>, <<"B">>, <<"A", "_", "B">> }

TestVariations == { <<"1">>, <<"2">>, <<"1", "0">> }

\* a data URL, different for every style and variation
UrlOf(styleChars, variationChars) ==
    <<"i", "m", "g", ":">> \o styleChars \o <<"#">> \o variationChars

Triple(styleChars, variationChars) ==
    [style |-> styleChars, variation |-> variationChars,
     url |-> UrlOf(styleChars, variationChars)]

TestTriples == {Triple(st, va) : st \in TestStyles, va \in TestVariations}

\* the sequences of at most MaxTestEntries different test triples
TestSources ==
    UNION {{src \in [1..n -> TestTriples] : \A i, j \in 1..n : i # j => src[i] # src[j]} :
              n \in 0..MaxTestEntries}

\* the slots of the application, in the order handleDownloadAll visits them
RECURSIVE AppSourceFrom(_)
AppSourceFrom(n) ==
    IF n > Len(STYLES) THEN <<>>
    ELSE [i \in 1..Len(Indices) |->
             Triple(StyleChars(STYLES[n]), NumberToString(Indices[i] + 1))]
         \o AppSourceFrom(n + 1)

AppSource == AppSourceFrom(1)

AppSources == {SubSeq(AppSource, 1, n) : n \in 0..Len(AppSource)}

\* the length of the payload of a long data URL
PayloadLen == 50

\* a data URL that is longer than the part of it an error message quotes
LongTriple(styleChars, variationChars) ==
    [style |-> styleChars, variation |-> variationChars,
     url |-> UrlOf(styleChars, variationChars) \o [n \in 1..PayloadLen |-> "x"]]

\* inputs with a long data URL, alone and next to a short one
LongSources ==
    { << LongTriple(<<"A">>, <<"1">>) >>,
      << LongTriple(<<"A">>, <<"1">>), Triple(<<"B">>, <<"1">>) >> }

AlbumSources == TestSources \cup AppSources \cup LongSources

\* the object a caller builds from its triples, as handleDownloadAll does
RECURSIVE ComposeInput(_, _)
ComposeInput(acc, source) ==
    IF source = <<>> THEN acc
    ELSE ComposeInput(ObjPut(acc, ComposeKey(source[1].style, source[1].variation),
                             source[1].url),
                      Tail(source))

(***************************************************************************)
(* ProfileCard (PolaroidCard.tsx:41-134): the carousel of one style.       *)
(***************************************************************************)
\* the largest number of images of a card that is explored
MaxCardImages == 4

\* a % b of JavaScript: the remainder has the sign of the dividend
JsRemainder(a, b) == IF a >= 0 THEN a % b ELSE 0 - ((0 - a) % b)

\* i => (i + 1) % images.length
NextIndex(i, length) == JsRemainder(i + 1, length)

\* a step back without the added length
PrevIndexNoWrap(i, length) == JsRemainder(i - 1, length)

\* i => (i - 1 + images.length) % images.length
PrevIndex(i, length) == JsRemainder(i - 1 + length, length)

\* the trail after a press of button that started from index from
Pressed(button, from) ==
    (IF Len(cardTrail) < 2 THEN cardTrail ELSE Tail(cardTrail))
       \o << [button |-> button, from |-> from] >>

\* the arrows and the dots are rendered when images.length > 1
ControlsShown == Len(cardImages) > 1

HandleNext ==
    /\ ControlsShown
    /\ currentIndex' = NextIndex(currentIndex, Len(cardImages))
    /\ cardTrail' = Pressed("next", currentIndex)
    /\ UNCHANGED cardImages
    /\ UNCHANGED <<appVars, albumVars>>

HandlePrev ==
    /\ ControlsShown
    /\ currentIndex' = PrevIndex(currentIndex, Len(cardImages))
    /\ cardTrail' = Pressed("prev", currentIndex)
    /\ UNCHANGED cardImages
    /\ UNCHANGED <<appVars, albumVars>>

\* the dot of a variation: setCurrentIndex(index), index a position of images
GoToVariation(index) ==
    /\ ControlsShown
    /\ index \in 0..(Len(cardImages) - 1)
    /\ currentIndex' = index
    /\ cardTrail' = Pressed("dot", currentIndex)
    /\ UNCHANGED cardImages
    /\ UNCHANGED <<appVars, albumVars>>

\* no card is followed
CardAtRest ==
    /\ cardImages = <<>>
    /\ currentIndex = 0
    /\ cardTrail = <<>>

(***************************************************************************)
(* The application.                                                        *)
(***************************************************************************)
AppInit ==
    /\ uploadedImage = NULL
    /\ generatedImages = EmptyObject
    /\ isGenerating = FALSE
    /\ isDownloading = FALSE
    /\ appState = "idle"
    /\ crashed = FALSE
    /\ readers = 0
    /\ tasks = {}
    /\ albumCall = NoCall
    /\ effect = "none"

\* no createAlbumPage call is followed step by step
AlbumAtRest ==
    /\ albumSource = <<>>
    /\ imageData = EmptyObject
    /\ albumPc = "idle"
    /\ loads = <<>>
    /\ canvasOps = <<>>
    /\ albumResult = NoResult

vars == <<appVars, albumVars, cardVars>>

Init == AppInit /\ AlbumAtRest /\ CardAtRest

Next ==
    \/ HandleImageUpload
    \/ \E result \in Photos \cup {NULL} : ReaderLoadEnd(result)
    \/ HandleGenerateClick
    \/ \E t \in tasks, outcome \in OutcomesIn(generatedImages) :
          SettleGeneration(t, outcome)
    \/ \E style \in StyleSet, index \in IndexSet : HandleRegenerateStyle(style, index)
    \/ \E t \in tasks, outcome \in OutcomesIn(generatedImages) :
          SettleRegeneration(t, outcome)
    \/ HandleReset
    \/ HandleDownloadAll
    \/ \E ok \in BOOLEAN : SettleAlbum(ok)

\* the application: upload, generate, regenerate, reset, export
Spec == Init /\ [][Next]_vars

\* every outstanding asynchronous operation settles in the end: the styling
\* requests, the FileReader reads and the createAlbumPage call
RequestsSettle ==
    /\ WF_vars(\E t \in tasks, outcome \in OutcomesIn(generatedImages) :
                  SettleGeneration(t, outcome))
    /\ WF_vars(\E t \in tasks, outcome \in OutcomesIn(generatedImages) :
                  SettleRegeneration(t, outcome))
    /\ WF_vars(\E result \in Photos \cup {NULL} : ReaderLoadEnd(result))
    /\ WF_vars(\E ok \in BOOLEAN : SettleAlbum(ok))

\* the application when no request stays outstanding for ever
SpecFair == Init /\ [][Next]_vars /\ RequestsSettle

(***************************************************************************)
(* One call of createAlbumPage on each explored input.                     *)
(***************************************************************************)
AlbumInit ==
    /\ AppInit
    /\ albumSource \in AlbumSources
    /\ imageData = ComposeInput(EmptyObject, albumSource)
    /\ albumPc = "idle"
    /\ loads = <<>>
    /\ canvasOps = <<>>
    /\ albumResult = NoResult
    /\ CardAtRest

AlbumNext ==
    \/ \E contextAvailable \in BOOLEAN : CreateAlbumPage(contextAvailable)
    \/ \E n \in 1..Len(loads), ok \in BOOLEAN : ImageSettles(n, ok)

SpecAlbum == AlbumInit /\ [][AlbumNext]_vars

(***************************************************************************)
(* One mounted ProfileCard with n >= 1 images.                             *)
(***************************************************************************)
CardInit ==
    /\ AppInit
    /\ AlbumAtRest
    /\ cardImages \in {[k \in 1..n |-> Pending] : n \in 1..MaxCardImages}
    /\ currentIndex = 0
    /\ cardTrail = <<>>

CardNext ==
    \/ HandleNext
    \/ HandlePrev
    \/ \E index \in 0..(MaxCardImages - 1) : GoToVariation(index)

SpecCard == CardInit /\ [][CardNext]_vars

(***************************************************************************)
(* Properties of the application (specification Spec).                     *)
(***************************************************************************)
NoSlot == [absent |-> TRUE]

\* the slot (style, index) of a collection, or NoSlot where it has none
SlotView(gi, style, index) ==
    IF ObjHas(gi, style) /\ "status" \in DOMAIN ArrayGet(ObjGet(gi, style), index)
    THEN ArrayGet(ObjGet(gi, style), index)
    ELSE NoSlot

Slots == StyleSet \X IndexSet

AllSlotsDone(gi) == \A sl \in Slots : StatusOf(SlotView(gi, sl[1], sl[2])) = "done"

\* C1: handleDownloadAll calls createAlbumPage only when each of the 8 slots
\* (4 styles x 2 variations) is done; when a slot is pending, in error or
\* missing it makes no call and shows the "please wait" notice instead.
C1_CompositorOnlyWhenAllDone ==
    [][ /\ (albumCall'.active /\ albumCall' # albumCall) => AllSlotsDone(generatedImages)
        /\ (HandleDownloadAll /\ ~AllSlotsDone(generatedImages))
              => (~albumCall'.active /\ effect' = "alert: please wait") ]_vars

\* handleDownloadAll has refused: a slot was missing
C1_Witness ==
    /\ effect = "alert: please wait"
    /\ ~AllSlotsDone(generatedImages)
    /\ ~albumCall.active

\* C2: a slot takes a settled value (done or error) only from pending, so that
\* between two entries into pending it makes exactly one transition and a done
\* or error slot changes only by a regeneration request (original claim).
C2_SettlesOnlyFromPending ==
    [][ \A sl \in Slots :
          LET before == SlotView(generatedImages, sl[1], sl[2])
              after == SlotView(generatedImages', sl[1], sl[2])
          IN  (after # before /\ StatusOf(after) \in {"done", "error"})
                 => StatusOf(before) = "pending" ]_vars

OthersUnchanged(style, index) ==
    \A sl \in Slots \ {<<style, index>>} :
        SlotView(generatedImages', sl[1], sl[2]) = SlotView(generatedImages, sl[1], sl[2])

\* C6: a regeneration request, a successful settlement or a failed settlement for
\* the slot (style, index) leaves the status and the data of every other slot of
\* every style as they were.
C6_SlotEventsAreLocal ==
    [][ /\ \A t \in tasks, outcome \in Outcomes :
              (SettleGeneration(t, outcome) \/ SettleRegeneration(t, outcome))
                 => OthersUnchanged(t.style, t.index)
        /\ \A sl \in Slots :
              HandleRegenerateStyle(sl[1], sl[2]) => OthersUnchanged(sl[1], sl[2]) ]_vars

\* a request has failed while the request of the other slot of its style is
\* still outstanding and a third slot is done
C6_Witness ==
    \E style \in StyleSet, index \in IndexSet :
        /\ StatusOf(SlotView(generatedImages, style, index)) = "error"
        /\ StatusOf(SlotView(generatedImages, style, 1 - index)) = "pending"
        /\ \E t \in tasks : t.style = style /\ t.index = 1 - index /\ ~t.stale
        /\ \E sl \in Slots : StatusOf(SlotView(generatedImages, sl[1], sl[2])) = "done"

\* the GeneratedImage values a collection holds
PresentSlots(gi) ==
    {gi[n][2][m] : <<n, m>> \in {nm \in (1..Len(gi)) \X (1..Len(STYLES) * Len(Indices)) :
                                    nm[2] <= Len(gi[nm[1]][2])}}
        \ {HOLE, UNDEFINED}

\* C7: every slot has a url exactly when its status is done and an error message
\* exactly when its status is error; a pending slot has neither.
C7_DataMatchesStatus ==
    \A slot \in PresentSlots(generatedImages) :
        /\ slot.status \in {"pending", "done", "error"}
        /\ ("url" \in DOMAIN slot) <=> (slot.status = "done")
        /\ ("error" \in DOMAIN slot) <=> (slot.status = "error")

\* a collection with a done, an error and a pending slot
C7_Witness ==
    \A status \in {"pending", "done", "error"} :
        \E slot \in PresentSlots(generatedImages) : slot.status = status

\* C8: generatedImages is empty or maps exactly the declared styles, each to
\* exactly 2 slots with no position missing (original claim).
C8_CollectionIsEmptyOrComplete ==
    \/ generatedImages = EmptyObject
    \/ /\ Len(generatedImages) = Len(STYLES)
       /\ Range(ObjKeys(generatedImages)) = StyleSet
       /\ \A sl \in Slots : SlotView(generatedImages, sl[1], sl[2]) # NoSlot
       /\ \A n \in 1..Len(generatedImages) : Len(generatedImages[n][2]) = Len(Indices)

DoneSlots(gi) == {sl \in Slots : StatusOf(SlotView(gi, sl[1], sl[2])) = "done"}

\* data holds one entry per done slot of gi, under its key, with its url
HoldsTheDoneSlots(data, gi) ==
    /\ Len(data) = Cardinality(DoneSlots(gi))
    /\ Range(data) = {<<StyleChars(sl[1]) \o <<"_">> \o NumberToString(sl[2] + 1),
                         SlotView(gi, sl[1], sl[2]).url>> : sl \in DoneSlots(gi)}

\* C9: the imageData handleDownloadAll builds from the collection has exactly one
\* entry per done slot, under the key style_(index+1), with that slot's url, and no
\* entry for a pending or error slot; this is what it passes to createAlbumPage.
C9_ImageDataHoldsTheDoneSlots ==
    /\ ~FilterThrows(FlatMapEntries(generatedImages))
          => HoldsTheDoneSlots(ImageDataOf(generatedImages), generatedImages)
    /\ effect = "createAlbumPage"
          => HoldsTheDoneSlots(albumCall.imageData, generatedImages)

\* handleDownloadAll has just passed its imageData to createAlbumPage
C9_Witness ==
    /\ effect = "createAlbumPage"
    /\ albumCall.active
    /\ Len(albumCall.imageData) = Len(STYLES) * Len(Indices)

\* C14: when the createAlbumPage call of handleDownloadAll fails, the failure
\* notice is shown and nothing is downloaded; on every path out of
\* handleDownloadAll (download, failure, refusal) isDownloading is false again and
\* the collection is as it was, so that a complete collection can be exported again.
C14_FailedExportCanBeRetried ==
    [][ /\ SettleAlbum(FALSE)
              => /\ effect' = "alert: error creating collection"
                 /\ isDownloading' = FALSE
                 /\ generatedImages' = generatedImages
                 /\ (/\ ~crashed' /\ appState' = "results-shown" /\ ~isGenerating'
                     /\ AllSlotsDone(generatedImages'))
                       => DownloadAllDisabled(generatedImages', isGenerating',
                                              isDownloading') = "false"
        /\ SettleAlbum(TRUE)
              => /\ effect' = "download: faceframe-collection.jpg"
                 /\ isDownloading' = FALSE
                 /\ generatedImages' = generatedImages
        /\ (HandleDownloadAll /\ ~albumCall'.active)
              => /\ effect' \in {"alert: please wait", "alert: error creating collection"}
                 /\ isDownloading' = FALSE
                 /\ generatedImages' = generatedImages
        /\ isDownloading' => albumCall'.active ]_vars

\* the export of a complete collection has failed and can be started again
C14_Witness ==
    /\ effect = "alert: error creating collection"
    /\ ~isDownloading
    /\ ~albumCall.active
    /\ ~crashed
    /\ appState = "results-shown"
    /\ AllSlotsDone(generatedImages)
    /\ DownloadAllDisabled(generatedImages, isGenerating, isDownloading) = "false"

\* C16 (claim): while a request of a generation is outstanding, appState is
\* 'generating' and isGenerating is true, and regeneration is not offered;
\* appState is 'results-shown' only when all requests have settled.
C16_BarrierHoldsUntilAllSettled ==
    /\ (\E t \in tasks : t.kind = "generate")
          => (appState = "generating" /\ isGenerating)
    /\ appState = "results-shown"
          => (~isGenerating /\ ~\E t \in tasks : t.kind = "generate")

\* every slot of the collection is done or in error
AllSlotsSettled(gi) ==
    \A sl \in Slots : StatusOf(SlotView(gi, sl[1], sl[2])) \in {"done", "error"}

\* a regeneration of the slot is outstanding
Regenerating(sl) ==
    \E t \in tasks : t.kind = "regenerate" /\ t.style = sl[1] /\ t.index = sl[2]

\* C21 (claim, specification SpecFair): when every request settles in the end, a
\* started generation leads to appState 'results-shown' with isGenerating false
\* and all 8 slots done or in error, and a regeneration request leads to its slot
\* being done or in error.
C21_GenerationLeadsToResults ==
    /\ (appState = "generating")
          ~> (/\ appState = "results-shown"
              /\ ~isGenerating
              /\ AllSlotsSettled(generatedImages))
    /\ \A sl \in Slots :
          Regenerating(sl)
             ~> (StatusOf(SlotView(generatedImages, sl[1], sl[2])) \in {"done", "error"})

\* C22 (claim): a request issued before a Reset, a new upload or a new
\* generation writes neither its result nor its error into the collection when
\* it settles.
C22_RequestsOfEarlierSessionsWriteNothing ==
    [][ \A t \in tasks :
           (t.stale /\ t \notin tasks') => generatedImages' = generatedImages ]_vars

\* C23 (claim): at most one request is outstanding per slot, and no regeneration
\* is on offer while a request of a generation is outstanding.
C23_OneRequestPerSlot ==
    /\ \A sl \in Slots :
          Cardinality({t \in tasks : t.style = sl[1] /\ t.index = sl[2]}) <= 1
    /\ (\E t \in tasks : t.kind = "generate") => appState # "results-shown"

\* C24 (claim): after Reset the app is idle without photo and with an empty
\* collection, and the settlement of a regeneration finds its style in the
\* collection: it does not throw and it creates no slot in an emptied collection.
C24_RegenerationFindsItsStyle ==
    [][ /\ HandleReset
              => /\ appState' = "idle"
                 /\ uploadedImage' = NULL
                 /\ generatedImages' = EmptyObject
        /\ \A t \in tasks :
              (t.kind = "regenerate" /\ t \notin tasks')
                 => (ObjHas(generatedImages, t.style) /\ ~crashed') ]_vars

\* C25 (claim): isGenerating is true exactly when appState is 'generating'.
C25_GeneratingIffIsGenerating ==
    isGenerating <=> appState = "generating"

(***************************************************************************)
(* Properties of createAlbumPage (specification SpecAlbum).                *)
(***************************************************************************)
\* the positions of the drawImage operations on the canvas
DrawImagePositions == {m \in 1..Len(canvasOps) : canvasOps[m].op = "drawImage"}

\* C3: createAlbumPage is all-or-nothing: once a load has failed the call has
\* failed with an error and no encoded image; an encoded image is returned only
\* with every image loaded and drawn.
C3_AllOrNothing ==
    /\ (\E n \in 1..Len(loads) : loads[n] = "failed")
          => (albumPc = "rejected" /\ albumResult.kind = "error")
    /\ albumResult.kind = "dataURL"
          => /\ \A n \in 1..Len(loads) : loads[n] = "loaded"
             /\ Cardinality(DrawImagePositions) = Len(imageData)
             /\ albumResult.canvas = canvasOps

\* one load has failed, all the others have loaded
C3_Witness ==
    /\ albumPc = "rejected"
    /\ Len(loads) > 1
    /\ Cardinality({n \in 1..Len(loads) : loads[n] = "failed"}) = 1
    /\ Cardinality({n \in 1..Len(loads) : loads[n] = "loaded"}) = Len(loads) - 1

\* the number of keys of the input that sort before key
Rank(key) ==
    Cardinality({n \in 1..Len(imageData) : LocaleCompare(imageData[n][1], key) < 0})

\* the rectangle (x, y, w, h) lies in the grid cell of an index counted from 0
InCell(x, y, w, h, index) ==
    LET left == padding + (index % 4) * cellWidth
        top == padding + (index \div 4) * cellHeight
    IN  /\ left <= x /\ x + w <= left + cellWidth
        /\ top <= y /\ y + h <= top + cellHeight

\* C4: for an input of N <= 8 loadable images, the image of the key with sorted
\* index i is drawn in the cell of row i div 4 and column i mod 4, every cell
\* receives at most one image, and neither the insertion order of the input nor
\* the order in which the loads complete matters.
C4_RowMajorBySortedKey ==
    (albumPc = "resolved" /\ Len(imageData) <= gridRows * gridCols) =>
        /\ Cardinality(DrawImagePositions) = Len(imageData)
        /\ \A n \in 1..Len(imageData) :
              \E m \in DrawImagePositions :
                  /\ canvasOps[m].img.src = imageData[n][2]
                  /\ InCell(canvasOps[m].x, canvasOps[m].y, canvasOps[m].w, canvasOps[m].h,
                            Rank(imageData[n][1]))
        /\ \A cell \in 0..(gridRows * gridCols - 1) :
              Cardinality({m \in DrawImagePositions :
                              InCell(canvasOps[m].x, canvasOps[m].y, canvasOps[m].w,
                                     canvasOps[m].h, cell)}) <= 1

\* the eight images of the application, inserted in an order that is not sorted
C4_Witness ==
    /\ albumPc = "resolved"
    /\ Len(imageData) = gridRows * gridCols
    /\ \E n \in 1..(Len(imageData) - 1) :
          LocaleCompare(imageData[n][1], imageData[n + 1][1]) > 0

\* charCodeAt(0) of a character of a key
CharCode(c) ==
    CASE c = "_" -> 95
      [] c \in Range(DigitChars) -> 47 + IndexOf(DigitChars, c)
      [] c \in Range(UpperChars) -> 64 + IndexOf(UpperChars, c)
      [] c \in Range(LowerChars) -> 96 + IndexOf(LowerChars, c)

\* a < b in the lexicographic order of the character codes
RECURSIVE LexLess(_, _)
LexLess(a, b) ==
    IF b = <<>> THEN FALSE
    ELSE IF a = <<>> THEN TRUE
    ELSE IF a[1] # b[1] THEN CharCode(a[1]) < CharCode(b[1])
    ELSE LexLess(Tail(a), Tail(b))

\* the key of the input entry with this url (the explored urls differ per key)
KeyOfUrl(url) == imageData[CHOOSE n \in 1..Len(imageData) : imageData[n][2] = url][1]

\* the keys of the images in the order they were drawn
DrawnKeys ==
    LET drawn == SelectSeq(canvasOps, LAMBDA o : o.op = "drawImage")
    IN  [m \in 1..Len(drawn) |-> KeyOfUrl(drawn[m].img.src)]

\* C5 (original claim): the images are drawn in the lexicographic order of the
\* character codes of their full keys, for every pair of keys.
C5_LexicographicForEveryPair ==
    albumPc = "resolved" =>
        \A i, j \in 1..Len(DrawnKeys) : i < j => LexLess(DrawnKeys[i], DrawnKeys[j])

CharKind(c) ==
    IF c \in Range(DigitChars) THEN "digit"
    ELSE IF c \in Range(UpperChars) THEN "upper"
    ELSE IF c \in Range(LowerChars) THEN "lower"
    ELSE "punctuation"

\* a and b are equal up to a position where both have a digit, both an upper-case
\* or both a lower-case letter, or one is a prefix of the other
RECURSIVE DifferInKind(_, _)
DifferInKind(a, b) ==
    IF a = <<>> \/ b = <<>> THEN TRUE
    ELSE IF a[1] # b[1] THEN CharKind(a[1]) = CharKind(b[1]) /\ CharKind(a[1]) # "punctuation"
    ELSE DifferInKind(Tail(a), Tail(b))

\* C5 (amended): the order is lexicographic, character by character and not
\* numeric, for every pair of keys that first differ in two digits or in two
\* letters of the same case (or of which one is a prefix of the other), as all
\* keys of the declared styles do; so "A_10" is drawn before "A_2".
C5_LexicographicWithinAKind ==
    albumPc = "resolved" =>
        \A i, j \in 1..Len(DrawnKeys) :
            (i < j /\ DifferInKind(DrawnKeys[i], DrawnKeys[j]))
               => LexLess(DrawnKeys[i], DrawnKeys[j])

\* "A_2" was inserted before "A_10" and "A_10" was drawn before "A_2"
C5_Witness ==
    /\ albumPc = "resolved"
    /\ ObjKeys(imageData) = << <<"A", "_", "2">>, <<"A", "_", "1", "0">> >>
    /\ DrawnKeys = << <<"A", "_", "1", "0">>, <<"A", "_", "2">> >>

\* the caption of a triple follows the image of the triple on the canvas, in the
\* cell of the image, and the key was parsed into the triple's style and variation
CaptionRoundTrip(triple) ==
    /\ \E n \in 1..Len(ImagesWithStyles(imageData)) :
          /\ ImagesWithStyles(imageData)[n].src = triple.url
          /\ ImagesWithStyles(imageData)[n].style = triple.style
          /\ ImagesWithStyles(imageData)[n].variation = triple.variation
    /\ \E m \in DrawImagePositions :
          /\ canvasOps[m].img.src = triple.url
          /\ m + 1 <= Len(canvasOps)
          /\ canvasOps[m + 1].op = "fillText"
          /\ canvasOps[m + 1].text =
                triple.style \o <<" ", "(", "v">> \o triple.variation \o <<")">>
          /\ InCell(canvasOps[m + 1].x, canvasOps[m + 1].y, 0, 0,
                    Rank(ComposeKey(triple.style, triple.variation)))

\* C10 (original claim): for every style name and variation, the key
\* style_variation is parsed back into the same pair and the caption of its cell
\* is "style (vvariation)".
C10_RoundTripForEveryStyle ==
    albumPc = "resolved" =>
        \A n \in 1..Len(albumSource) : CaptionRoundTrip(albumSource[n])

\* C10 (amended): for every style name without "_" and every variation, the key
\* style_variation is parsed back into the same pair and the caption of its cell
\* is "style (vvariation)".
C10_RoundTripWithoutSeparator ==
    albumPc = "resolved" =>
        \A n \in 1..Len(albumSource) :
            "_" \notin Range(albumSource[n].style) => CaptionRoundTrip(albumSource[n])

\* the eight captions of the application's styles have been drawn
C10_Witness ==
    /\ albumPc = "resolved"
    /\ albumSource = AppSource
    /\ \A n \in 1..Len(albumSource) : CaptionRoundTrip(albumSource[n])

\* the canvas of a call on data whose images have all loaded
ExpectedCanvas(data) ==
    BackgroundOps \o
    DrawAlbum([m \in 1..Len(data) |-> LoadedImage(ImagesWithStyles(data)[m].src)],
              ImagesWithStyles(data))

AllSettled == \A n \in 1..Len(loads) : loads[n] # "pending"

AllLoaded == \A n \in 1..Len(loads) : loads[n] = "loaded"

\* C11: the outcome of createAlbumPage is a function of its input and of which
\* images can be loaded: the same sequence of draw operations and the same
\* output, or a failure, whatever the order in which the loads complete.
C11_OutcomeIsAFunctionOfTheInput ==
    /\ albumPc = "resolved"
          => /\ canvasOps = ExpectedCanvas(imageData)
             /\ albumResult = ToDataURL(ExpectedCanvas(imageData))
    /\ (albumPc = "rejected" /\ loads # <<>>)
          => (canvasOps = BackgroundOps /\ albumResult.kind = "error")
    /\ (albumPc # "idle" /\ loads # <<>> /\ AllSettled)
          => /\ albumPc = "resolved" <=> AllLoaded
             /\ albumPc = "rejected" <=> ~AllLoaded

\* a call on several images has resolved; their loads completed in any order
C11_Witness ==
    /\ albumPc = "resolved"
    /\ Len(imageData) = 3
    /\ canvasOps = ExpectedCanvas(imageData)

\* C12: for every input of N <= 8 loadable images, N = 0 included, the call on an
\* acquired canvas succeeds with a 3200x1800 JPEG; exactly the first N cells in
\* row-major order hold an image and the other 8 - N cells hold nothing.
C12_FixedOutputFirstCellsFilled ==
    (albumPc # "idle" /\ canvasOps # <<>> /\ Len(imageData) <= 8 /\ AllLoaded) =>
        /\ albumPc = "resolved"
        /\ albumResult.kind = "dataURL"
        /\ albumResult.type = "image/jpeg"
        /\ albumResult.width = 3200 /\ albumResult.height = 1800
        /\ Len(canvasOps) = 2 * Len(imageData) + 2
        /\ \A cell \in 0..7 :
              /\ Cardinality({m \in DrawImagePositions :
                                 InCell(canvasOps[m].x, canvasOps[m].y, canvasOps[m].w,
                                        canvasOps[m].h, cell)})
                    = IF cell < Len(imageData) THEN 1 ELSE 0
              /\ Cardinality({m \in 2..(Len(canvasOps) - 1) :
                                 /\ canvasOps[m].op = "fillText"
                                 /\ InCell(canvasOps[m].x, canvasOps[m].y, 0, 0, cell)})
                    = IF cell < Len(imageData) THEN 1 ELSE 0

\* a call on five images has resolved: three cells stay blank
C12_Witness ==
    /\ albumPc = "resolved"
    /\ Len(imageData) = 5
    /\ albumResult.kind = "dataURL"

\* needle occurs in hay
Contains(hay, needle) ==
    \E i \in 0..(Len(hay) - Len(needle)) : SubSeq(hay, i + 1, i + Len(needle)) = needle

\* the error loadImage rejects with for a source
LoaderErrorFor(src) ==
    [kind |-> "error", name |-> "Failed to load image",
     detail |-> SubSeq(src, 1, IF Len(src) < 50 THEN Len(src) ELSE 50) \o <<".", ".", ".">>]

\* the sources whose load has failed
FailedSources ==
    LET sorted == ImagesWithStyles(imageData)
    IN  {sorted[k].src : k \in {m \in 1..Len(loads) : loads[m] = "failed"}}

\* C13 (original claim): the error of a failed load never carries the full
\* source, for a source of any length.
C13_NeverTheFullSource ==
    (albumPc = "rejected" /\ loads # <<>>) =>
        \A src \in FailedSources : ~Contains(albumResult.detail, src)

\* C13 (amended): the error of a failed load carries the first 50 characters of
\* the source followed by "..."; a source longer than 50 characters is therefore
\* never carried in full (a source of at most 50 characters is).
C13_NeverTheFullLongSource ==
    (albumPc = "rejected" /\ loads # <<>>) =>
        /\ Len(albumResult.detail) <= 53
        /\ \E src \in FailedSources :
              albumResult.detail =
                 SubSeq(src, 1, IF Len(src) < 50 THEN Len(src) ELSE 50) \o <<".", ".", ".">>
        /\ \A src \in FailedSources :
              Len(src) > 50 => ~Contains(albumResult.detail, src)

\* the load of a long data URL has failed and was reported
C13_Witness ==
    /\ albumPc = "rejected"
    /\ \E src \in FailedSources :
          /\ Len(src) > 50
          /\ albumResult.detail = SubSeq(src, 1, 50) \o <<".", ".", ".">>

\* the errors of the two failures of the call
ErrorsAreTheDeclaredOnes ==
    /\ (albumPc = "rejected" /\ loads = <<>>)
          => /\ albumResult = [kind |-> "error", name |-> "Could not get 2D canvas context",
                               detail |-> <<>>]
             /\ canvasOps = <<>>
    /\ (\E n \in 1..Len(loads) : loads[n] = "failed")
          => /\ albumPc = "rejected"
             /\ \E src \in FailedSources : albumResult = LoaderErrorFor(src)
    /\ albumPc # "idle" => (loads = <<>> \/ Len(loads) = Len(imageData))

\* no load is issued a second time and a failed call stays failed
NothingIsRetried ==
    /\ \A n \in 1..Len(loads) :
          loads[n] # "pending" => (Len(loads') = Len(loads) /\ loads'[n] = loads[n])
    /\ albumPc = "rejected" => albumPc' = "rejected"

\* C15: without a 2D context createAlbumPage fails with the canvas-unavailable
\* error and no output; with a context and a failed load it fails with the error
\* loadImage rejected with, unchanged; the compositor retries neither.
C15_ErrorsPropagateUnchanged ==
    /\ []ErrorsAreTheDeclaredOnes
    /\ [][NothingIsRetried]_vars

\* the canvas was acquired and the failure of a load was passed on to the caller
C15_Witness ==
    /\ albumPc = "rejected"
    /\ Len(canvasOps) = 1
    /\ \E src \in FailedSources : albumResult = LoaderErrorFor(src)

\* the positions of the loads that fail in this step
FailingNow == {n \in 1..Len(loads) : loads[n] = "pending" /\ loads'[n] = "failed"}

\* C17: the call fails at the first rejected load, without waiting for the loads
\* still pending; loads that settle afterwards, loaded or failed, change neither
\* the reported failure nor the canvas nor the output.
C17_FirstFailureWins ==
    [][ /\ (albumPc = "loading" /\ FailingNow # {})
              => /\ albumPc' = "rejected"
                 /\ \E n \in FailingNow :
                       albumResult' = LoaderErrorFor(ImagesWithStyles(imageData)[n].src)
                 /\ canvasOps' = canvasOps
        /\ albumPc = "rejected"
              => /\ albumPc' = "rejected"
                 /\ albumResult' = albumResult
                 /\ canvasOps' = canvasOps ]_vars

\* after the first failure a sibling has loaded and another has failed
C17_Witness ==
    /\ albumPc = "rejected"
    /\ AllSettled
    /\ Cardinality({n \in 1..Len(loads) : loads[n] = "failed"}) = 2
    /\ Cardinality({n \in 1..Len(loads) : loads[n] = "loaded"}) >= 1
    /\ Len(canvasOps) = 1

\* C18: nothing but the background is on the canvas until every load has
\* succeeded; then the cells are drawn in increasing sorted index, each image
\* before its caption, the footer after all cells, and the canvas is encoded
\* after the footer.
C18_StepsAreOrdered ==
    /\ (\E m \in 1..Len(canvasOps) : canvasOps[m].op \in {"drawImage", "fillText"})
          => (AllLoaded /\ albumPc = "resolved")
    /\ albumPc = "resolved"
          => /\ Len(canvasOps) = 2 * Len(imageData) + 2
             /\ canvasOps[1].op = "fillRect"
             /\ \A i \in 1..Len(imageData) :
                   /\ canvasOps[2 * i].op = "drawImage"
                   /\ Rank(KeyOfUrl(canvasOps[2 * i].img.src)) = i - 1
                   /\ canvasOps[2 * i + 1].op = "fillText"
                   /\ canvasOps[2 * i + 1].size = 42
             /\ canvasOps[Len(canvasOps)].op = "fillText"
             /\ canvasOps[Len(canvasOps)].text = "Generated with FaceFrame on Google AI Studio"
             /\ albumResult.kind = "dataURL"
             /\ albumResult.canvas = canvasOps

\* four cells, the footer and the encoding have followed the loads
C18_Witness ==
    /\ albumPc = "resolved"
    /\ Len(imageData) = 4
    /\ canvasOps[Len(canvasOps)].op = "fillText"
    /\ albumResult.canvas = canvasOps

\* C19 (original claim): no canvas is acquired or painted while a load is
\* outstanding, and a load failure is reported before any canvas is acquired.
C19_CanvasAfterLoads ==
    /\ (\E n \in 1..Len(loads) : loads[n] = "pending") => canvasOps = <<>>
    /\ (\E n \in 1..Len(loads) : loads[n] = "failed") => canvasOps = <<>>

\* C19 (amended): the canvas is acquired and filled with the background before
\* any load is issued: while a load is outstanding, and when a load failure is
\* reported, the canvas holds the background and nothing else; images and
\* captions are drawn only after all loads have completed; without a canvas no
\* load is issued.
C19_CanvasBeforeLoads ==
    /\ loads # <<>>
          => /\ Len(canvasOps) >= 1
             /\ canvasOps[1].op = "fillRect"
             /\ canvasOps[1].w = 3200 /\ canvasOps[1].h = 1800
    /\ (\E n \in 1..Len(loads) : loads[n] # "loaded") => Len(canvasOps) = 1
    /\ Len(canvasOps) > 1 => AllLoaded
    /\ (albumPc = "rejected" /\ canvasOps = <<>>) => loads = <<>>

\* the background is on the canvas while loads are outstanding
C19_Witness ==
    /\ albumPc = "loading"
    /\ \E n \in 1..Len(loads) : loads[n] = "pending"
    /\ Len(canvasOps) = 1
    /\ canvasOps[1].op = "fillRect"

\* cells i and j, counted from 0, do not overlap
CellsApart(i, j) ==
    LET cw == (3200 - 2 * 100) \div 4
        ch == (1800 - 2 * 100) \div 2
    IN  \/ 100 + (i % 4) * cw + cw <= 100 + (j % 4) * cw
        \/ 100 + (j % 4) * cw + cw <= 100 + (i % 4) * cw
        \/ 100 + (i \div 4) * ch + ch <= 100 + (j \div 4) * ch
        \/ 100 + (j \div 4) * ch + ch <= 100 + (i \div 4) * ch

\* C20: with the deployed constants, for every index i in 0..7 the square image
\* box and its caption lie inside cell i: the box is centred horizontally, the
\* caption starts 20 below the box and its 42 pixels end above the cell bottom,
\* cells of distinct indices do not overlap and every cell lies in the canvas.
C20_BoxAndCaptionInsideTheCell ==
    albumPc = "resolved" =>
        \A i \in 1..Len(imageData) :
            LET box == canvasOps[2 * i]
                caption == canvasOps[2 * i + 1]
                cw == (3200 - 2 * 100) \div 4
                ch == (1800 - 2 * 100) \div 2
                left == 100 + ((i - 1) % 4) * cw
                top == 100 + ((i - 1) \div 4) * ch
            IN  /\ box.w = box.h /\ box.w = cw - 2 * 30
                /\ left <= box.x /\ box.x + box.w <= left + cw
                /\ box.x - left = (left + cw) - (box.x + box.w)
                /\ top <= box.y
                /\ caption.y = box.y + box.h + 20
                /\ caption.y + 42 <= top + ch
                /\ caption.x = left + cw \div 2
                /\ 0 <= left /\ left + cw <= 3200
                /\ 0 <= top /\ top + ch <= 1800
                /\ \A j \in 1..Len(imageData) : j # i => CellsApart(i - 1, j - 1)

\* all eight boxes and captions are on the canvas
C20_Witness ==
    /\ albumPc = "resolved"
    /\ Len(canvasOps) = 18
    /\ canvasOps[16].op = "drawImage"
    /\ canvasOps[17].op = "fillText"

(***************************************************************************)
(* Properties of ProfileCard (specification SpecCard).                     *)
(***************************************************************************)
\* the last two presses were first and then second, the first from index from
LastTwo(first, second, from) ==
    /\ Len(cardTrail) = 2
    /\ cardTrail[1].button = first
    /\ cardTrail[1].from = from
    /\ cardTrail[2].button = second

\* the index stays a position of images; a press of one arrow followed by a
\* press of the other is back where it started
IndexInRange ==
    /\ currentIndex \in 0..(Len(cardImages) - 1)
    /\ \A from \in 0..(Len(cardImages) - 1) :
          /\ LastTwo("next", "prev", from) => currentIndex = from
          /\ LastTwo("prev", "next", from) => currentIndex = from

\* the arrows step by one and wrap around at the ends
ArrowsWrap ==
    /\ HandleNext
          => currentIndex' = IF currentIndex = Len(cardImages) - 1 THEN 0
                             ELSE currentIndex + 1
    /\ HandlePrev
          => currentIndex' = IF currentIndex = 0 THEN Len(cardImages) - 1
                             ELSE currentIndex - 1

\* C26: on a card with n >= 1 images, after any sequence of next, previous and
\* go-to-index presses currentIndex is in 0..n-1; next and previous wrap around
\* cyclically, and next followed by previous, or previous followed by next,
\* returns to the index it started from.
C26_IndexCyclesInRange ==
    /\ []IndexInRange
    /\ [][ArrowsWrap]_vars

\* previous from the first image wrapped to the last, and next wrapped back
C26_Witness ==
    /\ Len(cardImages) = 3
    /\ LastTwo("prev", "next", 0)
    /\ cardTrail[2].from = 2
    /\ currentIndex = 0

====
